---- MODULE Spec2Model ----
(***************************************************************************)
(* Mood & Insight Analytics Engine of FINE: the Insight collection         *)
(* (server/models/Insight.js), its routes (routes/insights.js), the        *)
(* MoodLog collection (server/models/MoodLog.js) and its routes            *)
(* (routes/moods.js).  Times are integers (clock ticks); confidence is in  *)
(* tenths (0..10 stands for 0.0..1.0).                                     *)
(***************************************************************************)
EXTENDS Integers, Sequences, FiniteSets, TLC

VARIABLES
  now,          \* the wall clock read by new Date()
  insights,     \* the documents of the 'insights' collection
  nextInsight,  \* the next _id the collection hands out
  moods,        \* the documents of the 'moodlogs' collection
  nextMood,     \* the next _id of the moodlogs collection
  res,          \* the response of the request handled by the last step
  before,       \* history: the document the last write matched, as it was (or none)
  hist,         \* history: live = the insights stored with a future expiresAt and
                \* not deleted by their owner; recorded = who recorded each mood;
                \* voted = the votes answered with success, in order
  pending,      \* the requests in flight: where each handler is suspended
  feedback      \* the documents of the 'feedbacks' collection

vars ==
  <<now, insights, nextInsight, moods, nextMood, res, before, hist, pending,
    feedback>>

(***************************************************************************)
(* Bounds of the model.                                                    *)
(***************************************************************************)
MaxTime == 1
MaxInsights == 2
MaxRanked == 3
MaxMoods == 2
MaxLimit == 2
MaxVotes == 2
MaxWindow == 1
MaxClock == 3
MaxLogged == 3
MaxScored == 1
MaxOwned == 1
MaxPending == 2

Users == {"A", "B"}
None == "none"
\* A Date or Number field that is not set (undefined).
Unset == -1
\* An :id path parameter that is not the text of an ObjectId.
Malformed == 0

Min(a, b) == IF a < b THEN a ELSE b

(***************************************************************************)
(* The Insight schema.                                                     *)
(***************************************************************************)
InsightTypes ==
  {"spending_pattern", "mood_correlation", "budget_insight", "goal_progress",
   "behavioral_trigger", "recommendation", "forecast"}

InsightCategories ==
  {"financial", "emotional", "behavioral", "predictive", "actionable"}

Priorities == {"low", "medium", "high", "urgent"}

\* The priority strings as the code points the database compares.
PriorityText ==
  [low    |-> <<108, 111, 119>>,
   medium |-> <<109, 101, 100, 105, 117, 109>>,
   high   |-> <<104, 105, 103, 104>>,
   urgent |-> <<117, 114, 103, 101, 110, 116>>]

\* Binary comparison of two strings: -1, 0 or 1.
RECURSIVE StrCmp(_, _)
StrCmp(s, t) ==
  IF s = <<>> /\ t = <<>> THEN 0
  ELSE IF s = <<>> THEN -1
  ELSE IF t = <<>> THEN 1
  ELSE IF Head(s) < Head(t) THEN -1
  ELSE IF Head(s) > Head(t) THEN 1
  ELSE StrCmp(Tail(s), Tail(t))

NumCmp(a, b) == IF a < b THEN -1 ELSE IF a > b THEN 1 ELSE 0

\* Schema validation of a document handed to the collection for insertion.
InsightValid(doc) ==
  /\ doc.userId # None
  /\ doc.type \in InsightTypes
  /\ doc.confidence >= 0 /\ doc.confidence <= 10
  /\ doc.priority = None \/ doc.priority \in Priorities
  /\ doc.category \in InsightCategories

\* The stored document: schema defaults and the timestamps option applied.
NewInsight(doc, id, t) ==
  [id            |-> id,
   userId        |-> doc.userId,
   type          |-> doc.type,
   category      |-> doc.category,
   priority      |-> IF doc.priority = None THEN "medium" ELSE doc.priority,
   confidence    |-> doc.confidence,
   isActionable  |-> doc.isActionable,
   isRead        |-> FALSE,
   actionTaken   |-> FALSE,
   actionTakenAt |-> Unset,
   expiresAt     |-> doc.expiresAt,
   createdAt     |-> t,
   updatedAt     |-> t]

NoRes ==
  [op |-> "none", user |-> None, id |-> 0, status |-> 0, body |-> <<>>,
   total |-> 0, limit |-> 0, at |-> 0]

Reply(op, u, id, status, body, total, limit) ==
  [op |-> op, user |-> u, id |-> id, status |-> status, body |-> body,
   total |-> total, limit |-> limit, at |-> now]

\* All orderings of the set S that respect the order ord, the set of pairs
\* <<a, b>> in which a may come before b; documents that compare equal come
\* in any order.
Sorted(S, ord) ==
  {s \in [1..Cardinality(S) -> S] :
     /\ \A i, j \in 1..Cardinality(S) : i # j => s[i] # s[j]
     /\ \A i, j \in 1..Cardinality(S) : i < j => <<s[i], s[j]>> \in ord}

\* cursor.skip(k).limit(n) on a sorted sequence.
Page(s, k, n) ==
  IF k >= Len(s) THEN <<>> ELSE SubSeq(s, k + 1, Min(k + n, Len(s)))

\* Casting the _id of a query filter to ObjectId fails (CastError): the query
\* rejects and the handler's catch block answers.
CastFails(id) == id = Malformed

\* The filter as it would be without the userId condition.
MatchingAnyUser(u, id) == {i \in insights : i.id = id}

\* The filter { _id: id, userId: req.user.id } of the insight routes.
Matching(u, id) == {i \in insights : i.id = id /\ i.userId = u}

(***************************************************************************)
(* Insight queries.                                                        *)
(***************************************************************************)
\* expiresAt: { $gt: t }; a document without the field does not match.
NotExpired(i, t) == i.expiresAt # Unset /\ i.expiresAt > t

\* The filter as it would be without the actionTaken: false condition.
ActionableFilterTaken(i, u, t) ==
  i.userId = u /\ i.isActionable /\ NotExpired(i, t)

\* The find() filter of getActionableInsights.
ActionableFilter(i, u, t) ==
  i.userId = u /\ i.isActionable /\ ~i.actionTaken /\ NotExpired(i, t)

\* sort({ priority: -1, confidence: -1, createdAt: -1 }): priority is a
\* String field, so it is compared as a string.
ActionableCmp(a, b) ==
  LET p == StrCmp(PriorityText[b.priority], PriorityText[a.priority])
      c == NumCmp(b.confidence, a.confidence)
  IN  IF p # 0 THEN p ELSE IF c # 0 THEN c ELSE NumCmp(b.createdAt, a.createdAt)

\* The results getActionableInsights(u, limit) can return at time t.
GetActionableInsights(u, limit, t) ==
  LET found == {i \in insights : ActionableFilter(i, u, t)}
  IN  {Page(s, 0, limit) :
         s \in Sorted(found, {p \in found \X found : ActionableCmp(p[1], p[2]) <= 0})}

\* The filter object GET /api/insights builds from the query string.
ListFilter(i, u, f) ==
  /\ i.userId = u
  /\ f.type = None \/ i.type = f.type
  /\ f.category = None \/ i.category = f.category
  /\ f.priority = None \/ i.priority = f.priority
  /\ f.isRead = None \/ i.isRead = (f.isRead = "true")
  /\ f.isActionable = None \/ i.isActionable = (f.isActionable = "true")

\* sort({ [sort]: sortOrder }) of GET /api/insights.
ListCmp(field, order, a, b) ==
  LET c == IF field = "priority"
           THEN StrCmp(PriorityText[a.priority], PriorityText[b.priority])
           ELSE NumCmp(a[field], b[field])
  IN  IF order = "asc" THEN c ELSE 0 - c

(***************************************************************************)
(* Insight operations.                                                     *)
(***************************************************************************)
\* A producer stores a document: Insight.create(doc) under insightSchema.
IngestInsight(doc) ==
  /\ IF InsightValid(doc)
     THEN /\ insights' = insights \cup {NewInsight(doc, nextInsight, now)}
          /\ nextInsight' = nextInsight + 1
          /\ hist' = [hist EXCEPT !.live =
                        IF doc.expiresAt # Unset /\ doc.expiresAt > now
                        THEN @ \cup {<<nextInsight, doc.userId>>} ELSE @]
          /\ res' = Reply("ingest", doc.userId, nextInsight, 201, <<>>, 0, 0)
     ELSE /\ UNCHANGED <<insights, nextInsight, hist>>
          /\ res' = Reply("ingest", doc.userId, 0, 400, <<>>, 0, 0)
  /\ before' = {}
  /\ UNCHANGED <<now, moods, nextMood, pending, feedback>>

\* GET /api/insights
GetInsights(u, f, page, limit, field, order) ==
  /\ LET found == {i \in insights : ListFilter(i, u, f)}
     IN  \E s \in Sorted(found, {p \in found \X found :
                                   ListCmp(field, order, p[1], p[2]) <= 0}) :
           res' = Reply("list", u, 0, 200, Page(s, (page - 1) * limit, limit),
                        Cardinality(found), limit)
  /\ before' = {}
  /\ UNCHANGED <<now, insights, nextInsight, moods, nextMood, hist,
               pending, feedback>>

\* GET /api/insights/actionable
GetActionable(u, limit) ==
  /\ \E body \in GetActionableInsights(u, limit, now) :
       res' = Reply("actionable", u, 0, 200, body, 0, limit)
  /\ before' = {}
  /\ UNCHANGED <<now, insights, nextInsight, moods, nextMood, hist,
               pending, feedback>>

\* GET /api/insights/:id
GetInsightById(u, id) ==
  /\ IF CastFails(id)
     THEN res' = Reply("getById", u, id, 500, <<>>, 0, 0)
     ELSE IF Matching(u, id) = {}
     THEN res' = Reply("getById", u, id, 404, <<>>, 0, 0)
     ELSE \E i \in Matching(u, id) :
            res' = Reply("getById", u, id, 200, <<i>>, 0, 0)
  /\ before' = {}
  /\ UNCHANGED <<now, insights, nextInsight, moods, nextMood, hist,
               pending, feedback>>

\* The update as it would be if it flipped isRead instead of setting it.
ReadUpdateToggle(i, t) == [i EXCEPT !.isRead = ~@, !.updatedAt = t]

\* { $set: { isRead: true } } under the timestamps option.
ReadUpdate(i, t) == [i EXCEPT !.isRead = TRUE, !.updatedAt = t]

\* The update as it would be if it flipped actionTaken instead of setting it.
ActionTakenUpdateToggle(i, t) ==
  [i EXCEPT !.actionTaken = ~@, !.actionTakenAt = t, !.updatedAt = t]

\* The update as it would be without the actionTakenAt stamp.
ActionTakenUpdateNoStamp(i, t) ==
  [i EXCEPT !.actionTaken = TRUE, !.updatedAt = t]

\* { $set: { actionTaken: true, actionTakenAt: new Date() } }
ActionTakenUpdate(i, t) ==
  [i EXCEPT !.actionTaken = TRUE, !.actionTakenAt = t, !.updatedAt = t]

\* PUT /api/insights/:id/read
PutRead(u, id) ==
  /\ IF CastFails(id)
     THEN /\ res' = Reply("read", u, id, 500, <<>>, 0, 0)
          /\ before' = {}
          /\ UNCHANGED insights
     ELSE IF Matching(u, id) = {}
     THEN /\ res' = Reply("read", u, id, 404, <<>>, 0, 0)
          /\ before' = {}
          /\ UNCHANGED insights
     ELSE \E i \in Matching(u, id) :
            /\ insights' = (insights \ {i}) \cup {ReadUpdate(i, now)}
            /\ res' = Reply("read", u, id, 200, <<>>, 0, 0)
            /\ before' = {i}
  /\ UNCHANGED <<now, nextInsight, moods, nextMood, hist, pending, feedback>>

\* PUT /api/insights/:id/action-taken
PutActionTaken(u, id) ==
  /\ IF CastFails(id)
     THEN /\ res' = Reply("actionTaken", u, id, 500, <<>>, 0, 0)
          /\ before' = {}
          /\ UNCHANGED insights
     ELSE IF Matching(u, id) = {}
     THEN /\ res' = Reply("actionTaken", u, id, 404, <<>>, 0, 0)
          /\ before' = {}
          /\ UNCHANGED insights
     ELSE \E i \in Matching(u, id) :
            /\ insights' = (insights \ {i}) \cup {ActionTakenUpdate(i, now)}
            /\ res' = Reply("actionTaken", u, id, 200, <<>>, 0, 0)
            /\ before' = {i}
  /\ UNCHANGED <<now, nextInsight, moods, nextMood, hist, pending, feedback>>

\* DELETE /api/insights/:id
DeleteInsight(u, id) ==
  /\ IF CastFails(id)
     THEN /\ res' = Reply("delete", u, id, 500, <<>>, 0, 0)
          /\ before' = {}
          /\ UNCHANGED <<insights, hist>>
     ELSE IF Matching(u, id) = {}
     THEN /\ res' = Reply("delete", u, id, 404, <<>>, 0, 0)
          /\ before' = {}
          /\ UNCHANGED <<insights, hist>>
     ELSE \E i \in Matching(u, id) :
            /\ insights' = insights \ {i}
            /\ hist' = [hist EXCEPT !.live = @ \ {<<id, u>>}]
            /\ res' = Reply("delete", u, id, 200, <<>>, 0, 0)
            /\ before' = {i}
  /\ UNCHANGED <<now, nextInsight, moods, nextMood, pending, feedback>>

\* The TTL index on expiresAt (expireAfterSeconds: 0): the database removes
\* the documents whose expiresAt has been reached, at a time of its choosing.
TTLExpire ==
  /\ \E i \in insights : i.expiresAt # Unset /\ i.expiresAt <= now
  /\ insights' = {i \in insights : i.expiresAt = Unset \/ i.expiresAt > now}
  /\ res' = NoRes
  /\ before' = {}
  /\ UNCHANGED <<now, nextInsight, moods, nextMood, hist, pending, feedback>>

\* Time passes.
Tick ==
  /\ now < MaxTime
  /\ now' = now + 1
  /\ res' = NoRes
  /\ before' = {}
  /\ UNCHANGED <<insights, nextInsight, moods, nextMood, hist,
               pending, feedback>>

(***************************************************************************)
(* The MoodLog schema and the mood routes.                                 *)
(***************************************************************************)
MoodTags ==
  {"happy", "neutral", "stressed", "anxious", "excited", "sad", "angry", "calm",
   "worried", "content"}

Contexts ==
  {"before_transaction", "after_transaction", "general", "budget_review",
   "goal_check"}

\* isInt as it would be without its min and max options.
IsIntUnbounded(x, lo, hi) == x % 10 = 0

\* isInt({ min: lo, max: hi }) on a number of the request body.  The numbers
\* of a request body are written in tenths: 40 is 4 and 55 is 5.5.
IsInt(x, lo, hi) == x % 10 = 0 /\ x \div 10 >= lo /\ x \div 10 <= hi

\* The Number stored for a body value that passed isInt.
NumberOf(x) == x \div 10

\* The moodScores table of the moodScore virtual.
MoodScores ==
  [happy |-> 9, excited |-> 8, content |-> 7, calm |-> 6, neutral |-> 5,
   worried |-> 4, sad |-> 3, anxious |-> 2, stressed |-> 2, angry |-> 1]

\* The virtual as it would be if it returned the table entry alone.
MoodScoreFlat(m) ==
  (IF m.mood \in DOMAIN MoodScores THEN MoodScores[m.mood] ELSE 5) * 10

\* The moodScore virtual, (moodScores[mood] || 5) * (intensity / 10), in
\* tenths: 27 is 2.7.
MoodScore(m) ==
  (IF m.mood \in DOMAIN MoodScores THEN MoodScores[m.mood] ELSE 5) * m.intensity

\* The moodLog object of the 201 response.
RecordView(m) ==
  [id |-> m.id, mood |-> m.mood, intensity |-> m.intensity,
   context |-> m.context, moodScore |-> MoodScore(m), createdAt |-> m.createdAt]

\* The moodLog object of the response to an update.
UpdateView(m) ==
  [id |-> m.id, mood |-> m.mood, intensity |-> m.intensity,
   context |-> m.context, moodScore |-> MoodScore(m), updatedAt |-> m.updatedAt]

\* findOneAndUpdate as it would be without { new: true }: the document as it
\* was is returned.
ReturnedOriginal(old, new) == old

\* findOneAndUpdate with { new: true } returns the document as updated.
Returned(old, new) == new

\* The validation chain of POST /api/moods.
RecordValid(b) ==
  /\ b.mood \in MoodTags
  /\ IsInt(b.intensity, 1, 10)
  /\ b.context = None \/ b.context \in Contexts

\* The validation chain of PUT /api/moods/:id: every field is optional.
UpdateValid(b) ==
  /\ b.mood = None \/ b.mood \in MoodTags
  /\ b.intensity = Unset \/ IsInt(b.intensity, 1, 10)
  /\ b.context = None \/ b.context \in Contexts

MoodMatching(u, id) == {m \in moods : m.id = id /\ m.userId = u}

\* The filter object GET /api/moods builds from the query string.
MoodFilter(m, u, f) ==
  /\ m.userId = u
  /\ f.mood = None \/ m.mood = f.mood
  /\ f.context = None \/ m.context = f.context
  /\ f.startDate = Unset \/ m.createdAt >= f.startDate
  /\ f.endDate = Unset \/ m.createdAt <= f.endDate

\* sort({ [sort]: sortOrder }) of GET /api/moods.
MoodCmp(field, order, a, b) ==
  LET c == NumCmp(a[field], b[field])
  IN  IF order = "asc" THEN c ELSE 0 - c

\* The update as it would be if it replaced the document by the body: the
\* paths the body leaves out go back to their defaults.
MoodUpdateReplace(m, b, t) ==
  [m EXCEPT !.mood = b.mood,
            !.intensity = IF b.intensity = Unset THEN 5 ELSE NumberOf(b.intensity),
            !.context = IF b.context = None THEN "general" ELSE b.context,
            !.updatedAt = t]

\* { $set: req.body }: every key of the body that is a path of the schema.
MoodUpdate(m, b, t) ==
  [m EXCEPT !.mood = IF b.mood = None THEN @ ELSE b.mood,
            !.intensity = IF b.intensity = Unset THEN @ ELSE NumberOf(b.intensity),
            !.context = IF b.context = None THEN @ ELSE b.context,
            !.userId = IF b.userId = None THEN @ ELSE b.userId,
            !.updatedAt = t]

\* new MoodLog({ userId, mood, intensity, context = 'general' }).save()
NewMood(u, b, id, t) ==
  [id |-> id, userId |-> u, mood |-> b.mood, intensity |-> NumberOf(b.intensity),
   context |-> IF b.context = None THEN "general" ELSE b.context,
   createdAt |-> t, updatedAt |-> t]

\* POST /api/moods
RecordMood(u, b) ==
  /\ IF RecordValid(b)
     THEN /\ moods' = moods \cup {NewMood(u, b, nextMood, now)}
          /\ nextMood' = nextMood + 1
          /\ hist' = [hist EXCEPT !.recorded = @ \cup {<<nextMood, u>>}]
          /\ res' = Reply("recordMood", u, nextMood, 201,
                          <<RecordView(NewMood(u, b, nextMood, now))>>, 0, 0)
     ELSE /\ UNCHANGED <<moods, nextMood, hist>>
          /\ res' = Reply("recordMood", u, 0, 400, <<>>, 0, 0)
  /\ before' = {}
  /\ UNCHANGED <<now, insights, nextInsight, pending, feedback>>

\* GET /api/moods.  The id of the reply is pagination.current_page.
GetMoods(u, f, page, limit, field, order) ==
  /\ LET found == {m \in moods : MoodFilter(m, u, f)}
     IN  \E s \in Sorted(found, {p \in found \X found :
                                   MoodCmp(field, order, p[1], p[2]) <= 0}) :
           res' = Reply("listMoods", u, page, 200,
                        Page(s, (page - 1) * limit, limit), Cardinality(found),
                        limit)
  /\ before' = {}
  /\ UNCHANGED <<now, insights, nextInsight, moods, nextMood, hist,
               pending, feedback>>

\* PUT /api/moods/:id
UpdateMood(u, id, b) ==
  /\ IF ~UpdateValid(b)
     THEN /\ res' = Reply("updateMood", u, id, 400, <<>>, 0, 0)
          /\ before' = {}
          /\ UNCHANGED moods
     ELSE IF CastFails(id)
     THEN /\ res' = Reply("updateMood", u, id, 500, <<>>, 0, 0)
          /\ before' = {}
          /\ UNCHANGED moods
     ELSE IF MoodMatching(u, id) = {}
     THEN /\ res' = Reply("updateMood", u, id, 404, <<>>, 0, 0)
          /\ before' = {}
          /\ UNCHANGED moods
     ELSE \E m \in MoodMatching(u, id) :
            /\ moods' = (moods \ {m}) \cup {MoodUpdate(m, b, now)}
            /\ res' = Reply("updateMood", u, id, 200,
                            <<UpdateView(Returned(m, MoodUpdate(m, b, now)))>>,
                            0, 0)
            /\ before' = {m}
  /\ UNCHANGED <<now, insights, nextInsight, nextMood, hist,
               pending, feedback>>

\* DELETE /api/moods/:id
DeleteMood(u, id) ==
  /\ IF CastFails(id)
     THEN /\ res' = Reply("deleteMood", u, id, 500, <<>>, 0, 0)
          /\ before' = {}
          /\ UNCHANGED <<moods, hist>>
     ELSE IF MoodMatching(u, id) = {}
     THEN /\ res' = Reply("deleteMood", u, id, 404, <<>>, 0, 0)
          /\ before' = {}
          /\ UNCHANGED <<moods, hist>>
     ELSE \E m \in MoodMatching(u, id) :
            /\ moods' = moods \ {m}
            /\ hist' = [hist EXCEPT !.recorded = {r \in @ : r[1] # id}]
            /\ res' = Reply("deleteMood", u, id, 200, <<>>, 0, 0)
            /\ before' = {m}
  /\ UNCHANGED <<now, insights, nextInsight, nextMood, pending, feedback>>

(***************************************************************************)
(* The mood aggregations.  Where a window is read the clock counts half     *)
(* days from the morning of Saturday 3 January 2026.                       *)
(***************************************************************************)
\* 24 * 60 * 60 * 1000 milliseconds, in ticks of the clock.
DayLength == 2

\* The calendar day of a time: the days since 2026-01-03.  It stands for the
\* text $dateToString "%Y-%m-%d" gives, which sorts as the days do.
DateOf(t) == t \div DayLength

\* { $year: '$createdAt' }
YearOf(t) == 2026

\* { $week: '$createdAt' }: weeks begin on Sunday and the days before the
\* first Sunday of the year are week 0.
WeekOf(t) == (DateOf(t) + 6) \div 7

\* The $match stage as it would be without the userId condition.
InWindowAnyUser(m, u, days, t) == m.createdAt >= t - days * DayLength

\* $match { userId, createdAt: { $gte: startDate } }, startDate being days
\* before t.
InWindow(m, u, days, t) == m.userId = u /\ m.createdAt >= t - days * DayLength

RECURSIVE SumOf(_, _)
SumOf(docs, field) ==
  IF docs = {} THEN 0
  ELSE LET d == CHOOSE x \in docs : TRUE
       IN  d[field] + SumOf(docs \ {d}, field)

\* { $avg: '$field' } over the documents of a group, as the sum and the number
\* of the values: a document that does not store the field adds nothing, and
\* the result is null (n = 0) when no document stores it.
Avg(docs, field) ==
  LET have == {d \in docs : field \in DOMAIN d}
  IN  [sum |-> SumOf(have, field), n |-> Cardinality(have)]

\* The $group stage of getMoodTrends.
TrendGroups(found) ==
  {[date |-> k[1], mood |-> k[2],
    avgIntensity |->
      Avg({m \in found : DateOf(m.createdAt) = k[1] /\ m.mood = k[2]}, "intensity"),
    count |->
      Cardinality({m \in found : DateOf(m.createdAt) = k[1] /\ m.mood = k[2]})] :
     k \in {<<DateOf(m.createdAt), m.mood>> : m \in found}}

\* The $group stage of getMoodPatterns.
PatternGroups(found) ==
  {[context |-> k[1], mood |-> k[2],
    count |-> Cardinality({m \in found : m.context = k[1] /\ m.mood = k[2]}),
    avgIntensity |->
      Avg({m \in found : m.context = k[1] /\ m.mood = k[2]}, "intensity")] :
     k \in {<<m.context, m.mood>> : m \in found}}

\* The $group stage of moodStats.
StatGroups(found) ==
  {[mood |-> k,
    count |-> Cardinality({m \in found : m.mood = k}),
    avgIntensity |-> Avg({m \in found : m.mood = k}, "intensity"),
    avgMoodScore |-> Avg({m \in found : m.mood = k}, "moodScore")] :
     k \in {m.mood : m \in found}}

\* The $group stage of weeklyScores.
WeekGroups(found) ==
  {[year |-> k[1], week |-> k[2],
    avgMoodScore |->
      Avg({m \in found : YearOf(m.createdAt) = k[1] /\ WeekOf(m.createdAt) = k[2]},
          "moodScore"),
    count |->
      Cardinality({m \in found :
                     YearOf(m.createdAt) = k[1] /\ WeekOf(m.createdAt) = k[2]})] :
     k \in {<<YearOf(m.createdAt), WeekOf(m.createdAt)>> : m \in found}}

\* GET /api/moods/trends; the limit of the reply holds the days of the request.
\* A $sort leaves the groups that compare equal in any order.
GetTrends(u, days) ==
  /\ LET found == {m \in moods : InWindow(m, u, days, now)}
         trends == TrendGroups(found)
         patterns == PatternGroups(found)
         stats == StatGroups(found)
         weeks == WeekGroups(found)
     IN  \E tr \in Sorted(trends, {p \in trends \X trends : p[1].date <= p[2].date}),
            pa \in Sorted(patterns,
                          {p \in patterns \X patterns : p[1].count >= p[2].count}),
            st \in Sorted(stats, {p \in stats \X stats : p[1].count >= p[2].count}),
            wk \in Sorted(weeks,
                          {p \in weeks \X weeks :
                             \/ p[1].year < p[2].year
                             \/ p[1].year = p[2].year /\ p[1].week <= p[2].week}) :
           res' = Reply("trends", u, 0, 200,
                        <<[trends |-> tr, patterns |-> pa, moodStats |-> st,
                           weeklyScores |-> wk]>>, 0, days)
  /\ before' = {}
  /\ UNCHANGED <<now, insights, nextInsight, moods, nextMood, hist,
               pending, feedback>>

\* The aggregate of GET /api/moods/summary fails when it has a document to
\* group: dominantMood evaluates $reduce with input '$mood', a String where
\* the operator requires an array.  With no document nothing is evaluated.
SummaryFails(found) == found # {}

\* GET /api/moods/summary; the limit of the reply holds the days of the
\* request.
GetSummary(u, days) ==
  /\ LET found == {m \in moods : InWindow(m, u, days, now)}
     IN  IF SummaryFails(found)
         THEN res' = Reply("summary", u, 0, 500, <<>>, 0, days)
         ELSE res' = Reply("summary", u, 0, 200,
                           <<[totalLogs |-> 0, avgMoodScore |-> 0,
                              dominantMood |-> "neutral",
                              moodDistribution |-> {}, recentMoods |-> <<>>]>>,
                           0, days)
  /\ before' = {}
  /\ UNCHANGED <<now, insights, nextInsight, moods, nextMood, hist,
               pending, feedback>>

\* Half a day passes.
Advance ==
  /\ now < MaxClock
  /\ now' = now + 1
  /\ res' = NoRes
  /\ before' = {}
  /\ UNCHANGED <<insights, nextInsight, moods, nextMood, hist,
               pending, feedback>>

(***************************************************************************)
(* The insight summary.                                                    *)
(***************************************************************************)
\* The $match stage of getInsightsSummary: userId and createdAt >= startDate,
\* startDate being days before t.
InsightInWindow(i, u, days, t) ==
  i.userId = u /\ i.createdAt >= t - days * DayLength

\* The $group stage of getInsightsSummary.
SummaryGroups(found) ==
  {LET G == {i \in found : i.type = k[1] /\ i.category = k[2]}
   IN  [type |-> k[1], category |-> k[2],
        count |-> Cardinality(G),
        avgConfidence |-> Avg(G, "confidence"),
        highPriorityCount |->
          Cardinality({i \in G : i.priority \in {"high", "urgent"}}),
        actionableCount |-> Cardinality({i \in G : i.isActionable})] :
     k \in {<<i.type, i.category>> : i \in found}}

\* summary.reduce((acc, item) => acc + item[field], 0)
RECURSIVE SumField(_, _)
SumField(s, field) ==
  IF s = <<>> THEN 0 ELSE Head(s)[field] + SumField(Tail(s), field)

\* summary.reduce((acc, item) => acc + item.avgConfidence, 0), as a fraction.
RECURSIVE SumAvg(_)
SumAvg(s) ==
  IF s = <<>> THEN [num |-> 0, den |-> 1]
  ELSE LET r == SumAvg(Tail(s))
           a == Head(s).avgConfidence
       IN  [num |-> r.num * a.n + a.sum * r.den, den |-> r.den * a.n]

\* Math.round(x * 100) / 100 of the confidence num / den (in tenths), in
\* hundredths: Math.round rounds a half up.
RoundHundredths(num, den) == (20 * num + den) \div (2 * den)

\* avgConfidence of the response: the sum of the groups' averages divided by
\* the number of groups, or 0 without groups.
AvgConfidence(s) ==
  IF Len(s) > 0
  THEN RoundHundredths(SumAvg(s).num, SumAvg(s).den * Len(s))
  ELSE 0

\* select('title type category priority confidence isRead isActionable
\* createdAt') of the recent insights.
RecentView(i) ==
  [id |-> i.id, type |-> i.type, category |-> i.category,
   priority |-> i.priority, confidence |-> i.confidence, isRead |-> i.isRead,
   isActionable |-> i.isActionable, createdAt |-> i.createdAt]

\* GET /api/insights/summary; the limit of the reply holds the days of the
\* request.
GetInsightSummary(u, days) ==
  /\ LET groups == SummaryGroups({i \in insights : InsightInWindow(i, u, days, now)})
         recent == {i \in insights : i.userId = u /\ NotExpired(i, now)}
     IN  \E summary \in Sorted(groups,
                               {p \in groups \X groups : p[1].count >= p[2].count}),
            rs \in Sorted(recent,
                          {p \in recent \X recent :
                             p[1].createdAt >= p[2].createdAt}) :
           res' = Reply("insightSummary", u, 0, 200,
                        <<[totalInsights |-> SumField(summary, "count"),
                           highPriorityCount |->
                             SumField(summary, "highPriorityCount"),
                           actionableCount |-> SumField(summary, "actionableCount"),
                           avgConfidence |-> AvgConfidence(summary),
                           breakdown |-> summary,
                           recentInsights |->
                             [k \in 1..Len(Page(rs, 0, 5)) |-> RecentView(rs[k])]]>>,
                        0, days)
  /\ before' = {}
  /\ UNCHANGED <<now, insights, nextInsight, moods, nextMood, hist,
               pending, feedback>>

(***************************************************************************)
(* Requests in flight.  A handler runs up to the await of a database call  *)
(* and resumes when the call has answered; between the two, the calls of   *)
(* the other requests in flight run.  Each database call is atomic.        *)
(***************************************************************************)
Slots == 1..MaxPending

Idle == [pc |-> "idle"]

Free(s) == pending[s].pc = "idle"

\* The request r with its database calls answered: what res.json will send.
Done(r, status, out, total, limit) ==
  [pc |-> "respond", op |-> r.op, user |-> r.user, id |-> r.id, req |-> r,
   status |-> status, out |-> out, total |-> total, limit |-> limit]

\* PUT /api/insights/:id/read, up to its await.
ReadRequest(s, u, id) ==
  /\ Free(s)
  /\ pending' = [pending EXCEPT ![s] =
                   [pc |-> "update", op |-> "read", user |-> u, id |-> id]]
  /\ UNCHANGED <<now, insights, nextInsight, moods, nextMood, res, before,
               hist, feedback>>

\* Insight.findOneAndUpdate({ _id, userId }, { isRead: true }, { new: true })
ReadFindOneAndUpdate(s) ==
  /\ pending[s].pc = "update" /\ pending[s].op = "read"
  /\ LET r == pending[s]
     IN  IF CastFails(r.id)
         THEN /\ pending' = [pending EXCEPT ![s] = Done(r, 500, <<>>, 0, 0)]
              /\ UNCHANGED insights
         ELSE IF Matching(r.user, r.id) = {}
         THEN /\ pending' = [pending EXCEPT ![s] = Done(r, 404, <<>>, 0, 0)]
              /\ UNCHANGED insights
         ELSE \E i \in Matching(r.user, r.id) :
                /\ insights' = (insights \ {i}) \cup {ReadUpdate(i, now)}
                /\ pending' = [pending EXCEPT ![s] = Done(r, 200, <<>>, 0, 0)]
  /\ UNCHANGED <<now, nextInsight, moods, nextMood, res, before, hist,
               feedback>>

\* PUT /api/insights/:id/action-taken, up to its await.
ActionTakenRequest(s, u, id) ==
  /\ Free(s)
  /\ pending' = [pending EXCEPT ![s] =
                   [pc |-> "update", op |-> "actionTaken", user |-> u,
                    id |-> id]]
  /\ UNCHANGED <<now, insights, nextInsight, moods, nextMood, res, before,
               hist, feedback>>

\* Insight.findOneAndUpdate({ _id, userId },
\*                          { actionTaken: true, actionTakenAt: new Date() })
ActionTakenFindOneAndUpdate(s) ==
  /\ pending[s].pc = "update" /\ pending[s].op = "actionTaken"
  /\ LET r == pending[s]
     IN  IF CastFails(r.id)
         THEN /\ pending' = [pending EXCEPT ![s] = Done(r, 500, <<>>, 0, 0)]
              /\ UNCHANGED insights
         ELSE IF Matching(r.user, r.id) = {}
         THEN /\ pending' = [pending EXCEPT ![s] = Done(r, 404, <<>>, 0, 0)]
              /\ UNCHANGED insights
         ELSE \E i \in Matching(r.user, r.id) :
                /\ insights' = (insights \ {i}) \cup {ActionTakenUpdate(i, now)}
                /\ pending' = [pending EXCEPT ![s] = Done(r, 200, <<>>, 0, 0)]
  /\ UNCHANGED <<now, nextInsight, moods, nextMood, res, before, hist,
               feedback>>

\* PUT /api/moods/:id, up to its await: the validation chain answers 400
\* without a database call.
UpdateMoodRequest(s, u, id, b) ==
  /\ Free(s)
  /\ pending' = [pending EXCEPT ![s] =
                   IF UpdateValid(b)
                   THEN [pc |-> "update", op |-> "updateMood", user |-> u,
                         id |-> id, body |-> b]
                   ELSE Done([op |-> "updateMood", user |-> u, id |-> id],
                             400, <<>>, 0, 0)]
  /\ UNCHANGED <<now, insights, nextInsight, moods, nextMood, res, before,
               hist, feedback>>

\* MoodLog.findOneAndUpdate({ _id, userId }, { $set: req.body }, { new: true })
MoodFindOneAndUpdate(s) ==
  /\ pending[s].pc = "update" /\ pending[s].op = "updateMood"
  /\ LET r == pending[s]
     IN  IF CastFails(r.id)
         THEN /\ pending' = [pending EXCEPT ![s] = Done(r, 500, <<>>, 0, 0)]
              /\ UNCHANGED moods
         ELSE IF MoodMatching(r.user, r.id) = {}
         THEN /\ pending' = [pending EXCEPT ![s] = Done(r, 404, <<>>, 0, 0)]
              /\ UNCHANGED moods
         ELSE \E m \in MoodMatching(r.user, r.id) :
                /\ moods' = (moods \ {m}) \cup {MoodUpdate(m, r.body, now)}
                /\ pending' = [pending EXCEPT ![s] =
                     Done(r, 200,
                          <<UpdateView(Returned(m, MoodUpdate(m, r.body, now)))>>,
                          0, 0)]
  /\ UNCHANGED <<now, insights, nextInsight, nextMood, res, before, hist,
               feedback>>

\* res.json(...) / res.status(...).json(...): the handler answers and ends.
Respond(s) ==
  /\ pending[s].pc = "respond"
  /\ res' = Reply(pending[s].op, pending[s].user, pending[s].id,
                  pending[s].status, pending[s].out, pending[s].total,
                  pending[s].limit)
  /\ pending' = [pending EXCEPT ![s] = Idle]
  /\ before' = {}
  /\ UNCHANGED <<now, insights, nextInsight, moods, nextMood, hist, feedback>>

\* GET /api/moods, up to its first await.
ListMoodsRequest(s, u, f, page, limit, field, order) ==
  /\ Free(s)
  /\ pending' = [pending EXCEPT ![s] =
                   [pc |-> "find", op |-> "listMoods", user |-> u, id |-> 0,
                    filter |-> f, page |-> page, limit |-> limit,
                    field |-> field, order |-> order]]
  /\ UNCHANGED <<now, insights, nextInsight, moods, nextMood, res, before,
               hist, feedback>>

\* await MoodLog.find(filter).sort(sortObj).limit(limit).skip((page - 1) * limit)
\* The slot keeps, as history, the size of the set the page is taken from.
MoodsFind(s) ==
  /\ pending[s].pc = "find" /\ pending[s].op = "listMoods"
  /\ LET r == pending[s]
         found == {m \in moods : MoodFilter(m, r.user, r.filter)}
     IN  \E sorted \in Sorted(found, {p \in found \X found :
                                     MoodCmp(r.field, r.order, p[1], p[2]) <= 0}) :
           pending' = [pending EXCEPT ![s] =
                         [pc |-> "count", op |-> r.op, user |-> r.user,
                          id |-> 0, filter |-> r.filter, limit |-> r.limit,
                          docs |-> Page(sorted, (r.page - 1) * r.limit, r.limit),
                          from |-> Cardinality(found)]]
  /\ UNCHANGED <<now, insights, nextInsight, moods, nextMood, res, before,
               hist, feedback>>

\* await MoodLog.countDocuments(filter)
MoodsCount(s) ==
  /\ pending[s].pc = "count" /\ pending[s].op = "listMoods"
  /\ LET r == pending[s]
     IN  pending' = [pending EXCEPT ![s] =
                       Done(r, 200, r.docs,
                            Cardinality({m \in moods :
                                           MoodFilter(m, r.user, r.filter)}),
                            r.limit)]
  /\ UNCHANGED <<now, insights, nextInsight, moods, nextMood, res, before,
               hist, feedback>>

\* GET /api/insights, up to its first await.
ListInsightsRequest(s, u, f, page, limit, field, order) ==
  /\ Free(s)
  /\ pending' = [pending EXCEPT ![s] =
                   [pc |-> "find", op |-> "list", user |-> u, id |-> 0,
                    filter |-> f, page |-> page, limit |-> limit,
                    field |-> field, order |-> order]]
  /\ UNCHANGED <<now, insights, nextInsight, moods, nextMood, res, before,
               hist, feedback>>

\* await Insight.find(filter).sort(sortObj).limit(limit).skip((page - 1) * limit)
InsightsFind(s) ==
  /\ pending[s].pc = "find" /\ pending[s].op = "list"
  /\ LET r == pending[s]
         found == {i \in insights : ListFilter(i, r.user, r.filter)}
     IN  \E sorted \in Sorted(found, {p \in found \X found :
                                     ListCmp(r.field, r.order, p[1], p[2]) <= 0}) :
           pending' = [pending EXCEPT ![s] =
                         [pc |-> "count", op |-> r.op, user |-> r.user,
                          id |-> 0, filter |-> r.filter, limit |-> r.limit,
                          docs |-> Page(sorted, (r.page - 1) * r.limit, r.limit),
                          from |-> Cardinality(found)]]
  /\ UNCHANGED <<now, insights, nextInsight, moods, nextMood, res, before,
               hist, feedback>>

\* await Insight.countDocuments(filter)
InsightsCount(s) ==
  /\ pending[s].pc = "count" /\ pending[s].op = "list"
  /\ LET r == pending[s]
     IN  pending' = [pending EXCEPT ![s] =
                       Done(r, 200, r.docs,
                            Cardinality({i \in insights :
                                           ListFilter(i, r.user, r.filter)}),
                            r.limit)]
  /\ UNCHANGED <<now, insights, nextInsight, moods, nextMood, res, before,
               hist, feedback>>

(***************************************************************************)
(* Storage failures.                                                       *)
(***************************************************************************)
\* How the awaited query of a read can reject: the server did not answer
\* within socketTimeoutMS, or no server could be selected (connection lost).
Faults == {"timeout", "unavailable"}

\* The awaited query of the read handler op rejects with the fault: control
\* passes to the handler's catch block, which logs the error and answers
\* res.status(500).json({ success: false, message: 'Server error' }).
StorageFails(op, u, id, fault) ==
  /\ fault \in Faults
  /\ res' = Reply(op, u, id, 500, <<>>, 0, 0)
  /\ before' = {}
  /\ UNCHANGED <<now, insights, nextInsight, moods, nextMood, hist,
               pending, feedback>>

(***************************************************************************)
(* Feedback votes.                                                         *)
(***************************************************************************)
\* new Feedback({ userId, ..., isPublic }).save() of POST /api/feedback, for
\* a body that passes validation; votes default to 0 and 0.  The collection
\* has no delete: the next _id is the number of documents plus one.
SubmitFeedback(u, isPublic) ==
  /\ feedback' = feedback \cup
       {[id |-> Cardinality(feedback) + 1, userId |-> u, isPublic |-> isPublic,
         upvotes |-> 0, downvotes |-> 0]}
  /\ res' = Reply("submitFeedback", u, Cardinality(feedback) + 1, 201, <<>>, 0, 0)
  /\ before' = {}
  /\ UNCHANGED <<now, insights, nextInsight, moods, nextMood, hist, pending>>

\* POST /api/feedback/:id/vote, up to its first await.  isUpvote is "true",
\* "false" or absent; body('isUpvote').isBoolean() answers 400 without a
\* database call.
VoteRequest(s, u, id, isUpvote) ==
  /\ Free(s)
  /\ pending' = [pending EXCEPT ![s] =
                   IF isUpvote \in {"true", "false"}
                   THEN [pc |-> "find", op |-> "vote", user |-> u, id |-> id,
                         isUpvote |-> isUpvote = "true"]
                   ELSE Done([op |-> "vote", user |-> u, id |-> id],
                             400, <<>>, 0, 0)]
  /\ UNCHANGED <<now, insights, nextInsight, moods, nextMood, res, before,
               hist, feedback>>

\* await Feedback.findOne({ _id: id, isPublic: true }): the handler holds a
\* copy of the document as it is stored now.
VoteFindOne(s) ==
  /\ pending[s].pc = "find" /\ pending[s].op = "vote"
  /\ LET r == pending[s]
         found == {f \in feedback : f.id = r.id /\ f.isPublic}
     IN  IF CastFails(r.id)
         THEN pending' = [pending EXCEPT ![s] = Done(r, 500, <<>>, 0, 0)]
         ELSE IF found = {}
         THEN pending' = [pending EXCEPT ![s] = Done(r, 404, <<>>, 0, 0)]
         ELSE \E f \in found :
                pending' = [pending EXCEPT ![s] =
                              [pc |-> "save", op |-> r.op, user |-> r.user,
                               id |-> r.id, isUpvote |-> r.isUpvote,
                               doc |-> f]]
  /\ UNCHANGED <<now, insights, nextInsight, moods, nextMood, res, before,
               hist, feedback>>

\* The copy after this.votes.upvotes += 1 or this.votes.downvotes += 1.
Voted(doc, isUpvote) ==
  IF isUpvote THEN [doc EXCEPT !.upvotes = @ + 1]
  ELSE [doc EXCEPT !.downvotes = @ + 1]

\* await feedback.vote(isUpvote): the method adds one to a count of the copy
\* and save() writes the modified path, with the value the copy holds, to the
\* stored document.
VoteSave(s) ==
  /\ pending[s].pc = "save" /\ pending[s].op = "vote"
  /\ LET r == pending[s]
         mine == Voted(r.doc, r.isUpvote)
     IN  /\ feedback' =
               {IF f.id # r.id THEN f
                ELSE IF r.isUpvote THEN [f EXCEPT !.upvotes = mine.upvotes]
                ELSE [f EXCEPT !.downvotes = mine.downvotes] : f \in feedback}
         /\ pending' = [pending EXCEPT ![s] =
                          Done(r, 200,
                               <<[upvotes |-> mine.upvotes,
                                  downvotes |-> mine.downvotes]>>, 0, 0)]
  /\ UNCHANGED <<now, insights, nextInsight, moods, nextMood, res, before,
               hist>>

\* res.json({ success: true, ... }) or res.status(...).json of the vote
\* handler; the history keeps the votes answered with success.
VoteRespond(s) ==
  /\ pending[s].pc = "respond" /\ pending[s].op = "vote"
  /\ res' = Reply("vote", pending[s].user, pending[s].id, pending[s].status,
                  pending[s].out, 0, 0)
  /\ hist' = [hist EXCEPT !.voted =
                IF pending[s].status = 200
                THEN Append(@, [id |-> pending[s].id,
                                isUpvote |-> pending[s].req.isUpvote])
                ELSE @]
  /\ pending' = [pending EXCEPT ![s] = Idle]
  /\ before' = {}
  /\ UNCHANGED <<now, insights, nextInsight, moods, nextMood, feedback>>

(***************************************************************************)
(* The insights router.                                                    *)
(***************************************************************************)
\* The GET routes of the router in the order of their registration; a path
\* is the text after /api/insights/.
GetRoutes ==
  <<[path |-> "", handler |-> "list"],
    [path |-> "actionable", handler |-> "actionable"],
    [path |-> "summary", handler |-> "insightSummary"],
    [path |-> ":id", handler |-> "getById"],
    [path |-> "types", handler |-> "types"]>>

\* A route matches its literal path; :id matches every segment that is not
\* empty.
RouteMatches(route, path) ==
  IF route.path = ":id" THEN path # "" ELSE route.path = path

\* The router calls the handler of the first route that matches; no handler
\* here calls next(), so no later route sees the request.
Dispatch(path) ==
  LET k == CHOOSE k \in DOMAIN GetRoutes :
             /\ RouteMatches(GetRoutes[k], path)
             /\ \A j \in 1..(k - 1) : ~RouteMatches(GetRoutes[j], path)
  IN  GetRoutes[k].handler

\* req.params.id: the text of an ObjectId names a document, any other text
\* does not cast.
ParamId(path) ==
  IF path = "1" THEN 1 ELSE IF path = "2" THEN 2 ELSE Malformed

\* The handler of GET /types: the list of the insight types, from no query.
TypeList ==
  <<"spending_pattern", "mood_correlation", "budget_insight", "goal_progress",
    "behavioral_trigger", "recommendation", "forecast">>

GetTypes(u) ==
  /\ res' = Reply("types", u, 0, 200, TypeList, 0, 0)
  /\ before' = {}
  /\ UNCHANGED <<now, insights, nextInsight, moods, nextMood, hist,
               pending, feedback>>

\* A GET request of user u for /api/insights/<path>, with the query string
\* q of the list, actionable and summary routes.
RouterGet(u, path, q) ==
  CASE Dispatch(path) = "list" ->
         GetInsights(u, q.filter, q.page, q.limit, q.sort, q.order)
    [] Dispatch(path) = "actionable" -> GetActionable(u, q.limit)
    [] Dispatch(path) = "insightSummary" -> GetInsightSummary(u, q.days)
    [] Dispatch(path) = "getById" -> GetInsightById(u, ParamId(path))
    [] Dispatch(path) = "types" -> GetTypes(u)

(***************************************************************************)
(* Specifications.  Every specification starts from empty collections and  *)
(* differs in the requests its environment issues.                         *)
(***************************************************************************)
Init ==
  /\ now = 0
  /\ insights = {}
  /\ nextInsight = 1
  /\ moods = {}
  /\ nextMood = 1
  /\ res = NoRes
  /\ before = {}
  /\ hist = [live |-> {}, recorded |-> {}, voted |-> <<>>]
  /\ pending = [s \in Slots |-> Idle]
  /\ feedback = {}

Actionable == \E u \in Users, limit \in 1..MaxLimit : GetActionable(u, limit)

GetById == \E u \in Users, id \in 1..MaxInsights : GetInsightById(u, id)

MarkRead == \E u \in Users, id \in 1..MaxInsights : PutRead(u, id)

MarkActionTaken == \E u \in Users, id \in 1..MaxInsights : PutActionTaken(u, id)

Delete == \E u \in Users, id \in 1..MaxInsights : DeleteInsight(u, id)

\* Spec: the read and action-taken marks on the insights of a user, with a
\* second user addressing the same ids.
Docs ==
  [userId : {"A"}, type : {"forecast"}, category : {"financial"},
   priority : {None}, confidence : {5}, isActionable : {TRUE},
   expiresAt : {now + 1}]

Ingest == nextInsight <= MaxInsights /\ \E doc \in Docs : IngestInsight(doc)

Next ==
  \/ Ingest
  \/ MarkRead
  \/ MarkActionTaken
  \/ Delete
  \/ TTLExpire
  \/ Tick

Spec == Init /\ [][Next]_vars

\* SpecActionable: the actionable query over the insights of two users.
ActionableDocs ==
  [userId : Users, type : {"forecast"}, category : {"financial"},
   priority : {None}, confidence : {5}, isActionable : BOOLEAN,
   expiresAt : {now + 1}]

IngestActionable ==
  nextInsight <= MaxInsights /\ \E doc \in ActionableDocs : IngestInsight(doc)

NextActionable ==
  \/ IngestActionable
  \/ Actionable
  \/ MarkActionTaken
  \/ TTLExpire
  \/ Tick

SpecActionable == Init /\ [][NextActionable]_vars

\* SpecExpiry: documents with, without and past their expiresAt, and documents
\* the schema must turn down.
ExpiryDocs ==
  [userId : {"A"}, type : {"forecast", "bogus"}, category : {"financial", "bogus"},
   priority : {None, "critical"}, confidence : {5, 11, -1},
   isActionable : {TRUE}, expiresAt : {Unset, now, now + 1}]

Filters ==
  {[type |-> None, category |-> None, priority |-> None, isRead |-> None,
    isActionable |-> None],
   [type |-> "forecast", category |-> "financial", priority |-> None,
    isRead |-> "false", isActionable |-> "true"],
   [type |-> None, category |-> None, priority |-> "medium", isRead |-> None,
    isActionable |-> None],
   [type |-> None, category |-> None, priority |-> None, isRead |-> "true",
    isActionable |-> None]}

IngestExpiring ==
  nextInsight <= MaxInsights /\ \E doc \in ExpiryDocs : IngestInsight(doc)

List ==
  \E u \in Users, f \in Filters, page \in 1..2, limit \in 1..MaxLimit,
     field \in {"createdAt"}, order \in {"asc", "desc"} :
    GetInsights(u, f, page, limit, field, order)

NextExpiry ==
  \/ IngestExpiring
  \/ List
  \/ Actionable
  \/ GetById
  \/ MarkRead
  \/ Delete
  \/ TTLExpire
  \/ Tick

SpecExpiry == Init /\ [][NextExpiry]_vars

\* SpecRank: one user's actionable insights of every priority.
RankDocs ==
  [userId : {"A"}, type : {"forecast"}, category : {"financial"},
   priority : Priorities, confidence : {5, 9}, isActionable : {TRUE},
   expiresAt : {MaxTime + 1}]

IngestRanked ==
  nextInsight <= MaxRanked /\ \E doc \in RankDocs : IngestInsight(doc)

Rank == \E limit \in 1..(MaxRanked + 1) : GetActionable("A", limit)

NextRank ==
  \/ IngestRanked
  \/ Rank
  \/ Tick

SpecRank == Init /\ [][NextRank]_vars

\* SpecMood: the mood events of two users.
MoodBodies ==
  [mood : {"happy", "bored"}, intensity : {40, 110}, context : {None, "shopping"}]

NoChange == [mood |-> None, intensity |-> Unset, context |-> None, userId |-> None]

UpdateBodies ==
  {NoChange,
   [NoChange EXCEPT !.mood = "sad"],
   [NoChange EXCEPT !.mood = "bored"],
   [NoChange EXCEPT !.intensity = 70],
   [NoChange EXCEPT !.intensity = 0],
   [NoChange EXCEPT !.userId = "A"],
   [NoChange EXCEPT !.userId = "B"]}

MoodFilters ==
  {[mood |-> None, context |-> None, startDate |-> Unset, endDate |-> Unset],
   [mood |-> "happy", context |-> "general", startDate |-> Unset,
    endDate |-> Unset]}

Record ==
  nextMood <= MaxMoods /\ \E u \in Users, b \in MoodBodies : RecordMood(u, b)

ListMoods ==
  \E u \in Users, f \in MoodFilters, page \in 1..2, limit \in 1..MaxLimit,
     field \in {"intensity"}, order \in {"asc", "desc"} :
    GetMoods(u, f, page, limit, field, order)

Update ==
  \E u \in Users, id \in 1..MaxMoods, b \in UpdateBodies : UpdateMood(u, id, b)

Remove == \E u \in Users, id \in 1..MaxMoods : DeleteMood(u, id)

NextMood ==
  \/ Record
  \/ ListMoods
  \/ Update
  \/ Remove
  \/ Tick

SpecMood == Init /\ [][NextMood]_vars

\* SpecOwner: the insights of user A and the mood events of user B, addressed
\* by either user with ids in use, ids never handed out and ids that are no
\* ObjectId.
OwnerDocs ==
  [userId : {"A"}, type : {"forecast"}, category : {"financial"},
   priority : {None}, confidence : {5}, isActionable : {TRUE},
   expiresAt : {MaxTime + 1}]

OwnerBodies == {[mood |-> "calm", intensity |-> 50, context |-> None]}

OwnerUpdates ==
  {[NoChange EXCEPT !.intensity = 70], [NoChange EXCEPT !.mood = "bored"]}

OwnerIds == {Malformed} \cup 1..(MaxOwned + 1)

IngestOwned == nextInsight <= MaxOwned /\ \E doc \in OwnerDocs : IngestInsight(doc)

RecordOwned ==
  nextMood <= MaxOwned /\ \E b \in OwnerBodies : RecordMood("B", b)

GetOwned == \E u \in Users, id \in OwnerIds : GetInsightById(u, id)

ReadOwned == \E u \in Users, id \in OwnerIds : PutRead(u, id)

ActOwned == \E u \in Users, id \in OwnerIds : PutActionTaken(u, id)

DeleteOwned == \E u \in Users, id \in OwnerIds : DeleteInsight(u, id)

UpdateOwned ==
  \E u \in Users, id \in OwnerIds, b \in OwnerUpdates : UpdateMood(u, id, b)

RemoveOwned == \E u \in Users, id \in OwnerIds : DeleteMood(u, id)

NextOwner ==
  \/ IngestOwned
  \/ RecordOwned
  \/ GetOwned
  \/ ReadOwned
  \/ ActOwned
  \/ DeleteOwned
  \/ UpdateOwned
  \/ RemoveOwned

SpecOwner == Init /\ [][NextOwner]_vars

\* SpecRecord: one user's record and update requests with bodies inside and
\* outside the validation chains (55 is the intensity 5.5).
RecordBodies ==
  [mood : {"calm", "bored"}, intensity : {50, 55, 0, 110},
   context : {None, "goal_check", "shopping"}]

RecordUpdates ==
  {[NoChange EXCEPT !.intensity = 100],
   [NoChange EXCEPT !.intensity = 105],
   [NoChange EXCEPT !.mood = "angry"],
   [NoChange EXCEPT !.mood = "bored"],
   [NoChange EXCEPT !.context = "general"],
   [NoChange EXCEPT !.context = "shopping"]}

RecordChecked ==
  nextMood <= MaxMoods /\ \E b \in RecordBodies : RecordMood("A", b)

UpdateChecked ==
  \E id \in 1..MaxMoods, b \in RecordUpdates : UpdateMood("A", id, b)

NextRecord ==
  \/ RecordChecked
  \/ UpdateChecked

SpecRecord == Init /\ [][NextRecord]_vars

\* SpecScore: one user's records of every mood tag at every intensity.
ScoreBodies ==
  [mood : MoodTags, intensity : {10 * k : k \in 1..10}, context : {None}]

RecordScored ==
  nextMood <= MaxScored /\ \E b \in ScoreBodies : RecordMood("A", b)

RemoveScored == \E id \in 1..MaxScored : DeleteMood("A", id)

NextScore ==
  \/ RecordScored
  \/ RemoveScored

SpecScore == Init /\ [][NextScore]_vars

\* SpecRescore: one user's mood events and the updates of their mood and
\* intensity, among tags with equal and with different table entries.
RescoreBodies ==
  [mood : {"happy", "sad", "anxious"}, intensity : {20, 60, 100},
   context : {None}]

RescoreUpdates ==
  {[NoChange EXCEPT !.mood = mood, !.intensity = intensity] :
     mood \in {None, "happy", "sad", "stressed"},
     intensity \in {Unset, 20, 60, 100}}

RecordRescored ==
  nextMood <= MaxScored /\ \E b \in RescoreBodies : RecordMood("A", b)

Rescore ==
  \E id \in 1..MaxScored, b \in RescoreUpdates : UpdateMood("A", id, b)

NextRescore ==
  \/ RecordRescored
  \/ Rescore

SpecRescore == Init /\ [][NextRescore]_vars

\* SpecSummary: one user's records of (happy, 10), (happy, 6) and
\* (stressed, 4) on one day, in any order, and the summary over 7 and over
\* 30 days.
SummaryBodies ==
  {[mood |-> "happy", intensity |-> 100, context |-> None],
   [mood |-> "happy", intensity |-> 60, context |-> None],
   [mood |-> "stressed", intensity |-> 40, context |-> None]}

RecordLogged ==
  nextMood <= MaxLogged /\ \E b \in SummaryBodies : RecordMood("A", b)

Summarize == \E days \in {7, 30} : GetSummary("A", days)

NextSummary ==
  \/ RecordLogged
  \/ Summarize

SpecSummary == Init /\ [][NextSummary]_vars

\* SpecEmpty: the summaries of two users over windows that hold, and windows
\* that do not hold, their events.
EmptyBodies == {[mood |-> "calm", intensity |-> 50, context |-> None]}

RecordWindowed ==
  nextMood <= MaxMoods /\ \E u \in Users, b \in EmptyBodies : RecordMood(u, b)

SummarizeWindow == \E u \in Users, days \in 1..MaxWindow : GetSummary(u, days)

NextEmpty ==
  \/ RecordWindowed
  \/ SummarizeWindow
  \/ Advance

SpecEmpty == Init /\ [][NextEmpty]_vars

\* SpecTrends: one user's mood events over two days and the trends of a
\* trailing window.
TrendBodies ==
  [mood : {"happy", "stressed"}, intensity : {40, 80},
   context : {None, "goal_check"}]

RecordTrend ==
  nextMood <= MaxMoods /\ \E b \in TrendBodies : RecordMood("A", b)

Trends == \E days \in 1..MaxWindow : GetTrends("A", days)

NextTrends ==
  \/ RecordTrend
  \/ Trends
  \/ Advance

SpecTrends == Init /\ [][NextTrends]_vars

\* SpecDigest: one user's insights of two types, marked as acted upon and
\* expiring, and the insight summary of a trailing window.
DigestDocs ==
  [userId : {"A"}, type : {"forecast", "recommendation"},
   category : {"financial"}, priority : {None, "high"}, confidence : {1, 10},
   isActionable : {TRUE}, expiresAt : {now + 1}]

IngestDigest ==
  nextInsight <= MaxRanked /\ \E doc \in DigestDocs : IngestInsight(doc)

ActDigest == PutActionTaken("A", 1)

Digest == \E days \in 1..MaxWindow : GetInsightSummary("A", days)

NextDigest ==
  \/ IngestDigest
  \/ ActDigest
  \/ Digest
  \/ TTLExpire
  \/ Tick

SpecDigest == Init /\ [][NextDigest]_vars

\* SpecTerminal: the marks, the expiry and the removal of a user's insights
\* together with the actionable query.
NextTerminal ==
  \/ Ingest
  \/ Actionable
  \/ MarkRead
  \/ MarkActionTaken
  \/ TTLExpire
  \/ Tick

SpecTerminal == Init /\ [][NextTerminal]_vars

\* SpecConcurrent: user A marks an insight read and acted on, and changes
\* single fields of a mood event, with several of the requests in flight.
SeedInsight == nextInsight = 1 /\ \E doc \in Docs : IngestInsight(doc)

SeedMood ==
  /\ nextMood = 1
  /\ RecordMood("A", [mood |-> "happy", intensity |-> 40, context |-> None])

Patches ==
  {[NoChange EXCEPT !.mood = "sad"], [NoChange EXCEPT !.intensity = 70]}

ReadCalled == \E s \in Slots : ReadRequest(s, "A", 1)

ReadApplied == \E s \in Slots : ReadFindOneAndUpdate(s)

ActionTakenCalled == \E s \in Slots : ActionTakenRequest(s, "A", 1)

ActionTakenApplied == \E s \in Slots : ActionTakenFindOneAndUpdate(s)

UpdateMoodCalled == \E s \in Slots, b \in Patches : UpdateMoodRequest(s, "A", 1, b)

UpdateMoodApplied == \E s \in Slots : MoodFindOneAndUpdate(s)

Responded == \E s \in Slots : Respond(s)

NextConcurrent ==
  \/ SeedInsight
  \/ SeedMood
  \/ ReadCalled
  \/ ReadApplied
  \/ ActionTakenCalled
  \/ ActionTakenApplied
  \/ UpdateMoodCalled
  \/ UpdateMoodApplied
  \/ Responded

SpecConcurrent == Init /\ [][NextConcurrent]_vars

\* SpecSnapshot: user A lists the mood events and the insights while the
\* same user records, updates and deletes.
NoMoodFilter ==
  [mood |-> None, context |-> None, startDate |-> Unset, endDate |-> Unset]

NoListFilter ==
  [type |-> None, category |-> None, priority |-> None, isRead |-> None,
   isActionable |-> None]

SnapshotRecord ==
  /\ nextMood <= MaxOwned
  /\ RecordMood("A", [mood |-> "happy", intensity |-> 40, context |-> None])

SnapshotUpdate ==
  \E id \in 1..MaxOwned : UpdateMood("A", id, [NoChange EXCEPT !.mood = "sad"])

SnapshotDelete == \E id \in 1..MaxOwned : DeleteMood("A", id)

SnapshotIngest == nextInsight <= MaxOwned /\ \E doc \in Docs : IngestInsight(doc)

SnapshotRemove == \E id \in 1..MaxOwned : DeleteInsight("A", id)

ListMoodsCalled ==
  \E s \in Slots, limit \in {MaxLimit} :
    ListMoodsRequest(s, "A", NoMoodFilter, 1, limit, "createdAt", "desc")

MoodsFound == \E s \in Slots : MoodsFind(s)

MoodsCounted == \E s \in Slots : MoodsCount(s)

ListInsightsCalled ==
  \E s \in Slots, limit \in {MaxLimit} :
    ListInsightsRequest(s, "A", NoListFilter, 1, limit, "createdAt", "desc")

InsightsFound == \E s \in Slots : InsightsFind(s)

InsightsCounted == \E s \in Slots : InsightsCount(s)

NextSnapshot ==
  \/ SnapshotRecord
  \/ SnapshotUpdate
  \/ SnapshotDelete
  \/ SnapshotIngest
  \/ SnapshotRemove
  \/ ListMoodsCalled
  \/ MoodsFound
  \/ MoodsCounted
  \/ ListInsightsCalled
  \/ InsightsFound
  \/ InsightsCounted
  \/ Responded

SpecSnapshot == Init /\ [][NextSnapshot]_vars

\* SpecPaging: user A records mood events and reads them page by page.
PagingFilters ==
  {NoMoodFilter, [NoMoodFilter EXCEPT !.mood = "happy"],
   [NoMoodFilter EXCEPT !.startDate = 1]}

PagingFields == {"createdAt", "intensity"}

PagingRecord ==
  /\ nextMood <= MaxMoods
  /\ \E mood \in {"happy", "sad"} :
       RecordMood("A", [mood |-> mood, intensity |-> 40, context |-> None])

PagingList ==
  \E f \in PagingFilters, page \in 1..(MaxMoods + 1), limit \in 1..MaxLimit,
     field \in PagingFields :
    GetMoods("A", f, page, limit, field, "desc")

NextPaging == PagingRecord \/ PagingList \/ Tick

SpecPaging == Init /\ [][NextPaging]_vars

\* SpecStorage: the reads of user A, each answered by the database or
\* rejected by a storage failure.
ReadOps == {"list", "actionable", "insightSummary", "trends", "getById"}

StorageIngest == nextInsight <= MaxOwned /\ \E doc \in Docs : IngestInsight(doc)

StorageRecord ==
  /\ nextMood <= MaxOwned
  /\ RecordMood("A", [mood |-> "happy", intensity |-> 40, context |-> None])

StorageList == GetInsights("A", NoListFilter, 1, MaxLimit, "createdAt", "desc")

StorageActionable == GetActionable("A", MaxLimit)

StorageGetById == \E id \in {Malformed} \cup 1..(MaxOwned + 1) : GetInsightById("A", id)

StorageSummary == GetInsightSummary("A", 1)

StorageTrends == GetTrends("A", 1)

StorageFault ==
  \E op \in ReadOps, fault \in Faults :
    \E id \in IF op = "getById" THEN 1..(MaxOwned + 1) ELSE {0} :
      StorageFails(op, "A", id, fault)

NextStorage ==
  \/ StorageIngest
  \/ StorageRecord
  \/ StorageList
  \/ StorageActionable
  \/ StorageGetById
  \/ StorageSummary
  \/ StorageTrends
  \/ StorageFault
  \/ Tick

SpecStorage == Init /\ [][NextStorage]_vars

\* SpecVotes: users vote on feedback while other votes are in flight.
Submit ==
  /\ Cardinality(feedback) < MaxOwned
  /\ \E isPublic \in BOOLEAN : SubmitFeedback("A", isPublic)

VoteCalled ==
  /\ Len(hist.voted) < MaxVotes
  /\ \E s \in Slots, u \in Users, id \in {Malformed} \cup 1..MaxOwned,
        isUpvote \in {"true", "false", None} :
       VoteRequest(s, u, id, isUpvote)

VoteFound == \E s \in Slots : VoteFindOne(s)

VoteSaved == \E s \in Slots : VoteSave(s)

VoteAnswered == \E s \in Slots : VoteRespond(s)

NextVotes == Submit \/ VoteCalled \/ VoteFound \/ VoteSaved \/ VoteAnswered

SpecVotes == Init /\ [][NextVotes]_vars

\* SpecRouter: user A stores insights and sends GET requests to every path
\* of the insights router.
RouterPaths == {"", "actionable", "summary", "types", "1", "2"}

RouterQueries ==
  [filter : {NoListFilter}, page : {1}, limit : 1..MaxLimit,
   sort : {"createdAt"}, order : {"desc"}, days : {1}]

RouterIngest == nextInsight <= MaxInsights /\ \E doc \in Docs : IngestInsight(doc)

RouterRequest ==
  \E u \in Users, path \in RouterPaths, q \in RouterQueries : RouterGet(u, path, q)

NextRouter == RouterIngest \/ RouterRequest \/ Tick

SpecRouter == Init /\ [][NextRouter]_vars

(***************************************************************************)
(* Properties.                                                             *)
(***************************************************************************)
Body == {res.body[k] : k \in 1..Len(res.body)}

\* C1: actionable returns the insights by priority descending in the order
\* urgent > high > medium > low, then by confidence descending, then by
\* createdAt descending.
C1_ActionableOrder ==
  res.op = "actionable" =>
    \A i, j \in 1..Len(res.body) :
      i < j =>
        LET a == res.body[i]
            b == res.body[j]
            PriorityRank(p) ==
              CASE p = "urgent" -> 4 [] p = "high" -> 3 [] p = "medium" -> 2
                [] OTHER -> 1
        IN  \/ PriorityRank(a.priority) > PriorityRank(b.priority)
            \/ /\ a.priority = b.priority
               /\ \/ a.confidence > b.confidence
                  \/ a.confidence = b.confidence /\ a.createdAt >= b.createdAt

\* C2: an insight whose expiresAt is at or before the clock is in no page the
\* list operation returns and is not counted in its totalCount (stated for the
\* insights that were stored with an expiresAt later than their creation).
C2_ListExcludesExpired ==
  res.op = "list" =>
    LET dead(i) == i.expiresAt > i.createdAt /\ i.expiresAt <= res.at
    IN  /\ \A i \in Body : ~dead(i)
        /\ res.total <=
             Cardinality({i \in insights : i.userId = res.user /\ ~dead(i)})

C4_GetByIdSurvivesExpiry ==
  /\ res.op = "getById" /\ <<res.id, res.user>> \in hist.live => res.status = 200
  /\ res.op \in {"list", "actionable"} =>
       \A i \in Body :
         ~(<<i.id, res.user>> \in hist.live /\ i.expiresAt <= res.at)

\* C5: a second markActionTaken succeeds and leaves the insight as the first
\* call left it, actionTakenAt included.
C5_ActionTakenIdempotent ==
  res.op = "actionTaken" =>
    \A b \in before :
      b.actionTaken =>
        /\ res.status = 200
        /\ \E i \in insights :
             /\ i.id = b.id
             /\ i.actionTaken
             /\ i.actionTakenAt = b.actionTakenAt

\* C6: markRead on an insight that is already read succeeds and changes none
\* of isRead, actionTaken, actionTakenAt, expiresAt and the content fields
\* (every field but the updatedAt bookkeeping timestamp).
C6_MarkReadIdempotent ==
  res.op = "read" =>
    \A b \in before :
      b.isRead =>
        /\ res.status = 200
        /\ \E i \in insights : [i EXCEPT !.updatedAt = b.updatedAt] = b

\* C6 witness: markRead has just been called, later, on an insight that was
\* already read.
C6_Witness ==
  /\ res.op = "read"
  /\ \E b \in before : b.isRead /\ res.at > b.createdAt

C8_IngestValidates ==
  \A i \in insights :
    /\ i.confidence >= 0 /\ i.confidence <= 10
    /\ i.type \in InsightTypes
    /\ i.category \in InsightCategories
    /\ i.priority \in Priorities
    /\ i.expiresAt # Unset
    /\ i.expiresAt > i.createdAt

\* C9: an update of a mood event leaves its userId, its creation time and
\* its id as they were.
C9_UpdateKeepsIdentity ==
  res.op = "updateMood" /\ res.status = 200 =>
    \A b \in before :
      \E m \in moods :
        m.id = b.id /\ m.userId = b.userId /\ m.createdAt = b.createdAt

\* C10: what a user reads depends only on that user's own operations: every
\* mood event the list returns to a user was recorded by that user, and every
\* insight returned to a user belongs to that user.
C10_NoCrossUserVisibility ==
  /\ res.op = "listMoods" =>
       \A m \in Body : m.userId = res.user /\ <<m.id, res.user>> \in hist.recorded
  /\ res.op \in {"list", "actionable", "getById"} =>
       \A i \in Body : i.userId = res.user

\* C11: getById, markRead, markActionTaken and delete of an insight, and
\* update (with a body that passes validation) and delete of a mood event, when
\* they name the id of a record of a different user, answer exactly as for an
\* id that does not exist: 404 with no data; both stores stay as they were.
C11_CrossUserNotFound ==
  [][LET NotFound ==
           /\ res' = [NoRes EXCEPT !.op = res'.op, !.user = res'.user,
                                   !.id = res'.id, !.status = 404, !.at = now]
           /\ insights' = insights
           /\ moods' = moods
     IN  /\ (/\ res'.op \in {"getById", "read", "actionTaken", "delete"}
             /\ \E i \in insights : i.id = res'.id /\ i.userId # res'.user)
              => NotFound
         /\ (/\ res'.op = "deleteMood"
             /\ \E m \in moods : m.id = res'.id /\ m.userId # res'.user)
              => NotFound
         /\ \A u \in Users, id \in OwnerIds, b \in OwnerUpdates :
              (/\ UpdateValid(b)
               /\ UpdateMood(u, id, b)
               /\ \E m \in moods : m.id = id /\ m.userId # u)
                => NotFound]_vars

\* C11 witness: an update of a mood event has just been answered not-found
\* although a mood event with that id exists, owned by another user.
C11_Witness ==
  /\ res.op = "updateMood"
  /\ res.status = 404
  /\ \E m \in moods : m.id = res.id /\ m.userId # res.user
  /\ insights # {}

\* C12: a delete of a mood event or of an insight whose id matches no record
\* of the caller (never created, malformed or already deleted) answers 404,
\* never a success and never a server error, and leaves both stores unchanged.
C12_DeleteMissingNotFound ==
  [][/\ (/\ res'.op = "delete"
         /\ ~\E i \in insights : i.id = res'.id /\ i.userId = res'.user)
          => res'.status = 404 /\ insights' = insights /\ moods' = moods
     /\ (/\ res'.op = "deleteMood"
         /\ ~\E m \in moods : m.id = res'.id /\ m.userId = res'.user)
          => res'.status = 404 /\ insights' = insights /\ moods' = moods]_vars

\* C13: record answers a validation error and stores nothing whenever the
\* intensity is not an integer in 1..10, the mood is not one of the ten tags or
\* a supplied context is not one of the five tags; otherwise it stores the
\* event with that mood and intensity and the context defaulted to general;
\* every stored mood event has intensity in 1..10, mood and context in their
\* enumerations.
C13_RecordValidates ==
  [][LET Tags == {"happy", "neutral", "stressed", "anxious", "excited", "sad",
                  "angry", "calm", "worried", "content"}
         Ctx == {"before_transaction", "after_transaction", "general",
                 "budget_review", "goal_check"}
         Good(b) ==
           /\ b.intensity \in {10 * k : k \in 1..10}
           /\ b.mood \in Tags
           /\ b.context = None \/ b.context \in Ctx
     IN  /\ \A b \in RecordBodies :
              RecordMood("A", b) =>
                IF Good(b)
                THEN /\ res'.status = 201
                     /\ \E m \in moods' \ moods :
                          /\ moods' = moods \cup {m}
                          /\ m.mood = b.mood
                          /\ 10 * m.intensity = b.intensity
                          /\ m.context =
                               IF b.context = None THEN "general" ELSE b.context
                ELSE res'.status = 400 /\ moods' = moods
         /\ \A m \in moods' :
              /\ m.intensity \in 1..10
              /\ m.mood \in Tags
              /\ m.context \in Ctx]_vars

\* C13 witness: a record request has just been turned down while an event
\* recorded without a context is stored with the context general.
C13_Witness ==
  /\ res.op = "recordMood"
  /\ res.status = 400
  /\ \E m \in moods : m.context = "general" /\ m.intensity = 10

\* C14: the score record returns is baseScore(mood) * intensity / 10 with
\* happy 9, excited 8, content 7, calm 6, neutral 5, worried 4, sad 3,
\* anxious 2, stressed 2, angry 1, for the mood and intensity stored, and lies
\* in (0, 9] (scores are in tenths: ten times the score is baseScore * intensity).
C14_ScoreFormula ==
  res.op = "recordMood" /\ res.status = 201 =>
    LET v == res.body[1]
        baseScore ==
          [happy |-> 9, excited |-> 8, content |-> 7, calm |-> 6, neutral |-> 5,
           worried |-> 4, sad |-> 3, anxious |-> 2, stressed |-> 2, angry |-> 1]
    IN  /\ v.moodScore = baseScore[v.mood] * v.intensity
        /\ v.moodScore > 0 /\ v.moodScore <= 90
        /\ v.intensity \in 1..10
        /\ \E m \in moods :
             m.id = v.id /\ m.mood = v.mood /\ m.intensity = v.intensity

\* C14 witness: a record of (stressed, 7) has just returned the score 1.4.
C14_Witness ==
  /\ res.op = "recordMood"
  /\ res.status = 201
  /\ res.body[1].mood = "stressed"
  /\ res.body[1].intensity = 7
  /\ res.body[1].moodScore = 14

C16_DominantMood ==
  res.op = "summary" =>
    LET win == {m \in moods :
                  m.userId = res.user /\ m.createdAt >= res.at - res.limit * DayLength}
        count(tag) == Cardinality({m \in win : m.mood = tag})
    IN  win # {} =>
          /\ res.status = 200
          /\ res.body[1].totalLogs = Cardinality(win)
          /\ \A tag \in {m.mood : m \in win} :
               count(res.body[1].dominantMood) >= count(tag)

\* C17: the summary of a window in which the user has no event answers
\* totalEvents 0, avgMoodScore 0, dominantMood neutral and an empty
\* distribution, whatever other users' events and the user's events outside
\* the window are.
C17_EmptySummary ==
  res.op = "summary" =>
    LET win == {m \in moods :
                  m.userId = res.user /\ m.createdAt >= res.at - res.limit * DayLength}
    IN  win = {} =>
          /\ res.status = 200
          /\ res.body[1].totalLogs = 0
          /\ res.body[1].avgMoodScore = 0
          /\ res.body[1].dominantMood = "neutral"
          /\ res.body[1].moodDistribution = {}

\* C17 witness: the default summary has just been returned to a user who has
\* an event before the window while another user has an event inside it.
C17_Witness ==
  /\ res.op = "summary"
  /\ res.status = 200
  /\ \E m \in moods : m.userId = res.user /\ m.createdAt < res.at - res.limit * DayLength
  /\ \E m \in moods : m.userId # res.user /\ m.createdAt >= res.at - res.limit * DayLength

\* C18: every entry of weeklyScores stands for one ISO calendar week of the
\* user's events in the window, its count is the number of those events and
\* its avgMoodScore times its count is the sum of their scores
\* (baseScore(mood) * intensity / 10); every such week has an entry and the
\* entries are in chronological order.
C18_WeeklyScores ==
  res.op = "trends" =>
    LET wk == res.body[1].weeklyScores
        win == {m \in moods :
                  m.userId = res.user /\ m.createdAt >= res.at - res.limit * DayLength}
        isoWeek(t) == ((t \div DayLength) + 5) \div 7 + 1
        baseScore ==
          [happy |-> 9, excited |-> 8, content |-> 7, calm |-> 6, neutral |-> 5,
           worried |-> 4, sad |-> 3, anxious |-> 2, stressed |-> 2, angry |-> 1]
        inWeek(w) == {m \in win : isoWeek(m.createdAt) = w}
        scores(w) ==
          LET RECURSIVE total(_)
              total(S) ==
                IF S = {} THEN 0
                ELSE LET m == CHOOSE x \in S : TRUE
                     IN  baseScore[m.mood] * m.intensity + total(S \ {m})
          IN  total(inWeek(w))
    IN  /\ {wk[k].week : k \in 1..Len(wk)} = {isoWeek(m.createdAt) : m \in win}
        /\ \A k \in 1..Len(wk) :
             /\ wk[k].count = Cardinality(inWeek(wk[k].week))
             /\ wk[k].avgMoodScore.n > 0
             /\ wk[k].avgMoodScore.sum * wk[k].count =
                  scores(wk[k].week) * wk[k].avgMoodScore.n
        /\ \A j, k \in 1..Len(wk) : j < k => wk[j].week < wk[k].week

\* C19: dailyTrend has exactly one bucket for every (calendar day, mood) of
\* the user's events in the window, with their number as count and their mean
\* intensity as avgIntensity, ordered by date ascending and, within a date, by
\* mood tag name.
C19_DailyTrendOrder ==
  res.op = "trends" =>
    LET tr == res.body[1].trends
        win == {m \in moods :
                  m.userId = res.user /\ m.createdAt >= res.at - res.limit * DayLength}
        in(k) == {m \in win : m.createdAt \div DayLength = tr[k].date /\ m.mood = tr[k].mood}
        name ==
          [angry |-> 1, anxious |-> 2, calm |-> 3, content |-> 4, excited |-> 5,
           happy |-> 6, neutral |-> 7, sad |-> 8, stressed |-> 9, worried |-> 10]
        total(S) == SumOf(S, "intensity")
    IN  /\ \A m \in win : Cardinality({k \in 1..Len(tr) : m \in in(k)}) = 1
        /\ \A k \in 1..Len(tr) :
             /\ tr[k].count = Cardinality(in(k))
             /\ tr[k].count > 0
             /\ tr[k].avgIntensity.n > 0
             /\ tr[k].avgIntensity.sum * tr[k].count =
                  total(in(k)) * tr[k].avgIntensity.n
        /\ \A j, k \in 1..Len(tr) :
             j < k =>
               \/ tr[j].date < tr[k].date
               \/ tr[j].date = tr[k].date /\ name[tr[j].mood] < name[tr[k].mood]

\* C20: patternsByContext has one entry for every (context, mood) pair of the
\* user's events in the window, ordered by count descending, then by
\* avgIntensity descending, then by context name.
C20_PatternOrder ==
  res.op = "trends" =>
    LET pa == res.body[1].patterns
        win == {m \in moods :
                  m.userId = res.user /\ m.createdAt >= res.at - res.limit * DayLength}
        name ==
          [after_transaction |-> 1, before_transaction |-> 2, budget_review |-> 3,
           general |-> 4, goal_check |-> 5]
        less(a, b) == a.sum * b.n < b.sum * a.n
    IN  /\ {<<pa[k].context, pa[k].mood>> : k \in 1..Len(pa)} =
             {<<m.context, m.mood>> : m \in win}
        /\ \A j, k \in 1..Len(pa) :
             j < k =>
               /\ <<pa[j].context, pa[j].mood>> # <<pa[k].context, pa[k].mood>>
               /\ \/ pa[j].count > pa[k].count
                  \/ /\ pa[j].count = pa[k].count
                     /\ less(pa[k].avgIntensity, pa[j].avgIntensity)
                  \/ /\ pa[j].count = pa[k].count
                     /\ ~less(pa[k].avgIntensity, pa[j].avgIntensity)
                     /\ ~less(pa[j].avgIntensity, pa[k].avgIntensity)
                     /\ name[pa[j].context] <= name[pa[k].context]

\* C21: the insight summary aggregates only the user's insights created in
\* the window whose expiresAt is later than the time of the call: totalInsights,
\* highPriorityCount and the breakdown count no expired insight (stated for
\* insights stored with an expiresAt later than their creation).
C21_SummaryExcludesExpired ==
  res.op = "insightSummary" =>
    LET s == res.body[1]
        alive == {i \in insights :
                    /\ i.userId = res.user
                    /\ i.createdAt >= res.at - res.limit * DayLength
                    /\ ~(i.expiresAt > i.createdAt /\ i.expiresAt <= res.at)}
    IN  /\ s.totalInsights <= Cardinality(alive)
        /\ s.highPriorityCount <=
             Cardinality({i \in alive : i.priority \in {"high", "urgent"}})
        /\ s.actionableCount <= Cardinality({i \in alive : i.isActionable})
        /\ \A k \in 1..Len(s.breakdown) :
             s.breakdown[k].count <=
               Cardinality({i \in alive : /\ i.type = s.breakdown[k].type
                                          /\ i.category = s.breakdown[k].category})

\* C22: avgConfidence of the insight summary is the sum of the confidences of
\* the insights aggregated divided by their number, rounded to two decimals,
\* and 0 when there are none (confidence in tenths, avgConfidence in
\* hundredths).
C22_AvgConfidenceUnweighted ==
  res.op = "insightSummary" =>
    LET s == res.body[1]
        all == {i \in insights :
                  i.userId = res.user /\ i.createdAt >= res.at - res.limit * DayLength}
        n == Cardinality(all)
    IN  s.avgConfidence =
          IF n = 0 THEN 0
          ELSE (20 * SumOf(all, "confidence") + n) \div (2 * n)

\* C23: in the insight summary totalInsights is the number of insights
\* aggregated, highPriorityCount the number of them with priority high or
\* urgent, and actionableCount the number of them that are actionable, not
\* acted upon and not expired.
C23_SummaryCounts ==
  res.op = "insightSummary" =>
    LET s == res.body[1]
        all == {i \in insights :
                  i.userId = res.user /\ i.createdAt >= res.at - res.limit * DayLength}
    IN  /\ s.totalInsights = Cardinality(all)
        /\ s.highPriorityCount =
             Cardinality({i \in all : i.priority \in {"high", "urgent"}})
        /\ s.actionableCount =
             Cardinality({i \in all : /\ i.isActionable
                                      /\ ~i.actionTaken
                                      /\ i.expiresAt # Unset
                                      /\ i.expiresAt > res.at})

C26_ConsistentSnapshot ==
  \A s \in Slots :
    (/\ pending[s].pc = "respond"
     /\ pending[s].op \in {"listMoods", "list"}
     /\ pending[s].status = 200)
    => pending[s].total = pending[s].req.from


\* The pages page p of size s can be, for the events stored now.
MoodPages(u, f, p, s, field) ==
  LET found == {m \in moods : MoodFilter(m, u, f)}
  IN  {Page(sorted, (p - 1) * s, s) :
         sorted \in Sorted(found, {q \in found \X found :
                                     MoodCmp(field, "desc", q[1], q[2]) <= 0})}

\* C27: mood list pagination is offset-based and the pages partition the
\* filtered set.  With no write in between, the call for page p + 1 returns
\* totalCount = the size of the filtered set, and no event that the answer
\* to the call for page p, with the same filter, size and sort, returned.
C27_PagesPartition ==
  [][\A f \in PagingFilters, p \in 1..MaxMoods, s \in 1..MaxLimit,
        field \in PagingFields :
       (/\ res.op = "listMoods" /\ res.id = p /\ res.limit = s
        /\ res.total = Cardinality({m \in moods : MoodFilter(m, "A", f)})
        /\ res.body \in MoodPages("A", f, p, s, field)
        /\ GetMoods("A", f, p + 1, s, field, "desc"))
       => /\ res'.total = Cardinality({m \in moods : MoodFilter(m, "A", f)})
          /\ \A j \in DOMAIN res.body, k \in DOMAIN res'.body :
               res.body[j] # res'.body[k]]_vars


\* C28: a read that fails in the backing store ends in an error outcome of
\* its own.  The answer to a read whose query timed out, or found the store
\* unavailable, is not a success, not the answer to a validation error (400)
\* and not not-found (404), and it is not also the answer to the same read
\* failing in the other way.
C28_StorageErrorsDistinct ==
  [][\A op \in ReadOps, id \in 0..(MaxOwned + 1), fault \in Faults :
       StorageFails(op, "A", id, fault)
       => /\ res'.status \notin {200, 400, 404}
          /\ \A other \in Faults \ {fault} : ~StorageFails(op, "A", id, other)]_vars


\* C29: feedback vote counts are exact under concurrency.  Whenever no vote
\* is in flight, the upvotes of every feedback item are the number of votes
\* with isUpvote = true on it that were answered with success, and its
\* downvotes the number of the others.
C29_VotesExact ==
  (\A s \in Slots : Free(s))
  => \A f \in feedback :
       /\ f.upvotes = Cardinality({k \in DOMAIN hist.voted :
                         hist.voted[k].id = f.id /\ hist.voted[k].isUpvote})
       /\ f.downvotes = Cardinality({k \in DOMAIN hist.voted :
                           hist.voted[k].id = f.id /\ ~hist.voted[k].isUpvote})


\* C30: every insight route is served by its own handler.  A GET request for
\* /actionable, /summary or /types is answered by the handler of that route,
\* and the answer to /types is a success carrying the seven insight types.
C30_OwnHandler ==
  [][\A u \in Users, q \in RouterQueries :
       /\ RouterGet(u, "actionable", q) => res'.op = "actionable"
       /\ RouterGet(u, "summary", q) => res'.op = "insightSummary"
       /\ RouterGet(u, "types", q)
          => res'.op = "types" /\ res'.status = 200 /\ Len(res'.body) = 7]_vars

====
